---------------------------- MODULE Spec2Model ----------------------------
(***************************************************************************)
(* Model of the source registry commands of datumaro                       *)
(* (src/datumaro/cli/contexts/remote/__init__.py): add_command and         *)
(* remove_command, stepping through their statements over a filesystem,    *)
(* the persisted project configuration and the VCS tracking state.         *)
(*                                                                         *)
(* A path component is a sequence of one-character strings, so that        *)
(* osp.basename / osp.splitext are computed and not tabulated.  A path is  *)
(* a record [abs, segs]; an empty last component is a trailing slash.      *)
(***************************************************************************)
EXTENDS Integers, Sequences, FiniteSets, TLC

VARIABLES
    fs,        \* filesystem: absolute path (sequence of components) -> kind
    saved,     \* persisted project: source name -> Source record
    project,   \* sources of the Project object of the running command
    tracked,   \* names the VCS adapter tracks (has_submodule)
    pc,        \* position of the running command, "idle" between commands
    args,      \* argparse namespace of the running (or last) command
    loc,       \* local variables of the running command, with the bound ones
    outcome,   \* "none" | "running" | "ok" | the error the last command raised
    pre,       \* snapshot of fs, saved, tracked when the command started
    log,       \* effects the running (or last) command performed, in order
    prev,      \* what is remembered of the command that ran before this one
    ops        \* number of commands issued

vars == <<fs, saved, project, tracked, pc, args, loc, outcome, pre, log, prev, ops>>

\* Number of commands issued in one behaviour.
MaxOps == 3

-----------------------------------------------------------------------------
(* Path components and paths *)

Voc == <<"v", "o", "c">>
VocGit == <<"v", "o", "c", ".", "g", "i", "t">>
CvatXml == <<"c", "v", "a", "t", ".", "x", "m", "l">>
Img == <<"i">>
Fifo == <<"k">>
Missing == <<"n">>
Host == <<"h">>
Proj == <<"p">>
Empty == <<>>

\* PROJECT_DEFAULT_CONFIG['sources_dir'] = 'sources'
SourcesDir == <<"s", "o", "u", "r", "c", "e", "s">>

\* project.config.project_dir of the loaded project, also the working directory
ProjectDir == [abs |-> TRUE, segs |-> <<Proj>>]
Cwd == <<Proj>>

AbsPath(s) == [abs |-> TRUE, segs |-> s]
RelPath(s) == [abs |-> FALSE, segs |-> s]

\* os.path.basename: everything after the last separator
Basename(u) == IF u.segs = <<>> THEN Empty ELSE u.segs[Len(u.segs)]

\* os.path.splitext(p)[0]: cut at the last dot, unless only dots precede it
SplitextRoot(p) ==
    LET dots == {i \in 1..Len(p) : p[i] = "."}
        dotIndex == IF dots = {} THEN 0
                    ELSE CHOOSE i \in dots : \A j \in dots : j <= i
    IN  IF dotIndex > 0 /\ \E j \in 1..(dotIndex - 1) : p[j] # "."
        THEN SubSeq(p, 1, dotIndex - 1)
        ELSE p

IsName(c) == c # Empty /\ c # <<".">>

\* os.path.normpath on the components: empty and "." components vanish
Norm(s) == SelectSeq(s, IsName)

\* os.path.abspath: join with the working directory, then normalise
Abspath(u) == AbsPath(Norm((IF u.abs THEN <<>> ELSE Cwd) \o u.segs))

\* os.path.join(a, b)
Join(a, b) ==
    IF b.abs THEN b
    ELSE [abs |-> a.abs,
          segs |-> (IF a.segs # <<>> /\ a.segs[Len(a.segs)] = Empty
                    THEN SubSeq(a.segs, 1, Len(a.segs) - 1)
                    ELSE a.segs) \o b.segs]

\* the filesystem entry a path string names
FsPath(u) == Abspath(u).segs

\* project.local_source_dir(name) = osp.join(sources_dir, name)
LocalSourceDir(name) == Join(RelPath(<<SourcesDir>>), RelPath(<<name>>))

\* osp.join(project.config.project_dir, project.local_source_dir(name))
LocalDir(name) == Join(ProjectDir, LocalSourceDir(name))

-----------------------------------------------------------------------------
(* Filesystem *)

IsPrefix(p, q) == Len(p) <= Len(q) /\ SubSeq(q, 1, Len(p)) = p

Exists(f, p) == p \in DOMAIN f
IsDir(f, p) == Exists(f, p) /\ f[p] = "dir"
IsFile(f, p) == Exists(f, p) /\ f[p] = "file"

Prefixes(p) == {SubSeq(p, 1, n) : n \in 0..Len(p)}

\* os.makedirs(p): p and its missing ancestors become directories
MakeDirs(f, p) ==
    [q \in DOMAIN f \cup Prefixes(p) |-> IF q \in DOMAIN f THEN f[q] ELSE "dir"]

\* shutil.copytree(src, dst): dst is made and the tree under src copied below it
CopyTree(f, src, dst) ==
    LET made == MakeDirs(f, dst)
        under == {q \in DOMAIN f : IsPrefix(src, q) /\ q # src}
        target(q) == dst \o SubSeq(q, Len(src) + 1, Len(q))
        new == {target(q) : q \in under}
    IN  [r \in DOMAIN made \cup new |->
            IF r \in DOMAIN made THEN made[r]
            ELSE f[CHOOSE q \in under : target(q) = r]]

\* shutil.copy2(src, dir): the file appears in dir under its own name
CopyFile(f, src, dir) ==
    LET dst == dir \o <<src[Len(src)]>>
    IN  [r \in DOMAIN f \cup {dst} |-> IF r = dst THEN "file" ELSE f[r]]

\* shutil.rmtree(p, ignore_errors=True): p and everything below it is removed;
\* when the removal fails the error is swallowed and the tree stays
RmTree(f, p, removed) ==
    IF removed /\ IsDir(f, p)
    THEN [q \in {r \in DOMAIN f : ~IsPrefix(p, r)} |-> f[q]]
    ELSE f

InitFs ==
    [q \in {<<>>, <<Voc>>, <<Voc, Img>>, <<CvatXml>>, <<Fifo>>, <<Proj>>} |->
        CASE q = <<Voc, Img>> -> "file"
          [] q = <<CvatXml>> -> "file"
          [] q = <<Fifo>> -> "other"
          [] OTHER -> "dir"]


-----------------------------------------------------------------------------
(* Command lines *)

Cvat == <<"c", "v", "a", "t">>
Format == "fmt"

NoName == [given |-> FALSE, val |-> Empty]
Named(n) == [given |-> TRUE, val |-> n]

\* add local <url> [-n name] -f format [--copy] [--skip-check]
LocalUrls ==
    {AbsPath(<<Voc>>), AbsPath(<<CvatXml>>), RelPath(<<SourcesDir, Voc, Empty>>)}

AddNames == {NoName, Named(Voc)}

\* urls given without a name: the root directory, whose derived name is
\* empty, and a path that is neither a directory nor a file
UnnamedUrls == {AbsPath(<<>>), AbsPath(<<Fifo>>)}

\* the url given with an explicit empty name: add local /voc -n ''
EmptyNamedUrls == {AbsPath(<<Voc>>)}

\* a url naming nothing: the command stops at line 132-133, before --copy and
\* --skip-check are read
MissingUrls == {AbsPath(<<Missing>>)}

\* a second source registered over data that lies inside the project
\* directory: add local sources/voc/ -n cvat [--skip-check]
InsideUrls == {RelPath(<<SourcesDir, Voc, Empty>>)}

\* add git <url> [-n name] [-b branch] [--checkout] -f format [--skip-check]
GitUrls == {RelPath(<<Host, VocGit>>)}

LocalArgs(urls, names, copies, skips) ==
    [cmd : {"add"}, source_type : {"local"}, url : urls, name : names,
     copy : copies, checkout : {FALSE}, skip_check : skips,
     force : {FALSE}, keep_data : {FALSE}]

AddArgs ==
    LocalArgs(LocalUrls, AddNames, BOOLEAN, BOOLEAN)
    \cup LocalArgs(UnnamedUrls, {NoName}, BOOLEAN, BOOLEAN)
    \cup LocalArgs(EmptyNamedUrls, {Named(Empty)}, BOOLEAN, BOOLEAN)
    \cup LocalArgs(MissingUrls, AddNames, {FALSE}, {FALSE})
    \cup LocalArgs(InsideUrls, {Named(Cvat)}, {FALSE}, BOOLEAN)
    \cup
    [cmd : {"add"}, source_type : {"git"}, url : GitUrls, name : {NoName},
     copy : {FALSE}, checkout : BOOLEAN, skip_check : BOOLEAN,
     force : {FALSE}, keep_data : {FALSE}]

\* remove -n name [--force] [--keep-data]
RemoveNames == {Empty, Voc, Cvat}

RemoveArgs ==
    [cmd : {"remove"}, source_type : {"none"}, url : {AbsPath(<<>>)},
     name : {Named(n) : n \in RemoveNames},
     copy : {FALSE}, checkout : {FALSE}, skip_check : {FALSE},
     force : BOOLEAN, keep_data : BOOLEAN]

NoArgs ==
    [cmd |-> "none", source_type |-> "none", url |-> AbsPath(<<>>),
     name |-> NoName, copy |-> FALSE, checkout |-> FALSE, skip_check |-> FALSE,
     force |-> FALSE, keep_data |-> FALSE]

NoLoc == [name |-> Empty, url |-> AbsPath(<<>>), bound |-> {}]

NoSources == [n \in {} |-> [url |-> AbsPath(<<>>), format |-> Format]]

-----------------------------------------------------------------------------
(* Collaborators: Project, Project Store, VCS Adapter *)

\* load_project(args.project_dir): the Project is read from the saved document
LoadProject == saved

\* name in project.sources
HasSource(p, name) == name \in DOMAIN p

\* project.add_source(name, value): the Source record is attached under name
AddSourceTo(p, name, value) ==
    [n \in DOMAIN p \cup {name} |-> IF n = name THEN value ELSE p[n]]

\* project.remove_source(name): the record is dropped, a missing one is no error
RemoveSourceFrom(p, name) == [n \in DOMAIN p \ {name} |-> p[n]]

\* project.env.git.has_submodule(name)
HasSubmodule(name) == name \in tracked

\* project.env.git.remove_submodule(name, force): with force the adapter logs
\* and swallows its own failure, without force the failure is raised
UntrackRaises(ok, force) == ~ok /\ ~force

-----------------------------------------------------------------------------
(* Command bookkeeping *)

Snapshot == [fs |-> fs, saved |-> saved, tracked |-> tracked]

\* what the next command remembers of the one before it: a remove command's
\* name, --force and result
NoRemove ==
    [cmd |-> "none", name |-> Empty, force |-> FALSE, outcome |-> "none",
     url |-> AbsPath(<<>>), copy |-> FALSE, rolled_back |-> FALSE]
LastRemove ==
    IF args.cmd = "remove"
    THEN [NoRemove EXCEPT !.cmd = "remove", !.name = args.name.val,
                          !.force = args.force, !.outcome = outcome]
    ELSE NoRemove

\* and of an add command that failed the source check: its resolved name, its
\* url and --copy, and whether the rmtree of its rollback went through
LastCommand ==
    IF args.cmd = "add" /\ outcome = "VerificationError"
    THEN [NoRemove EXCEPT !.cmd = "add", !.name = loc.name, !.url = args.url,
                          !.copy = args.copy, !.outcome = outcome,
                          !.rolled_back = (log[Len(log)] = "rollback")]
    ELSE LastRemove

\* Begin with the Project object of the command before kept, not reloaded
BeginKeepsProject(a, first) ==
    /\ pc = "idle"
    /\ ops < MaxOps
    /\ ops' = ops + 1
    /\ args' = a
    /\ pc' = first
    /\ loc' = NoLoc
    /\ outcome' = "running"
    /\ pre' = Snapshot
    /\ log' = <<>>
    /\ prev' = LastCommand
    /\ UNCHANGED <<fs, saved, tracked, project>>

Begin(a, first) ==
    /\ pc = "idle"
    /\ ops < MaxOps
    /\ ops' = ops + 1
    /\ args' = a
    /\ project' = LoadProject
    /\ pc' = first
    /\ loc' = NoLoc
    /\ outcome' = "running"
    /\ pre' = Snapshot
    /\ log' = <<>>
    /\ prev' = LastCommand
    /\ UNCHANGED <<fs, saved, tracked>>

\* the command raises: control leaves the handler, nothing further runs
Raise(e) ==
    /\ pc' = "idle"
    /\ outcome' = e

\* the command returns 0
Return ==
    /\ pc' = "idle"
    /\ outcome' = "ok"

Did(e) == log' = Append(log, e)

Init ==
    /\ fs = InitFs
    /\ saved = NoSources
    /\ project = NoSources
    /\ tracked = {}
    /\ pc = "idle"
    /\ args = NoArgs
    /\ loc = NoLoc
    /\ outcome = "none"
    /\ pre = [fs |-> InitFs, saved |-> NoSources, tracked |-> {}]
    /\ log = <<>>
    /\ prev = NoRemove
    /\ ops = 0

-----------------------------------------------------------------------------
(* add_command *)

\* name = args.name, or osp.splitext(osp.basename(url))[0] when it is None
ResolveName(n, u) == IF n.given THEN n.val ELSE SplitextRoot(Basename(u))

AddBegin == \E a \in AddArgs :
    Begin(a, IF a.source_type = "git" THEN "add_git" ELSE "add_local")

\* git: the name is resolved from the raw url and the repository is registered
\* with the VCS adapter, which refuses a name it already tracks
AddGitTrack ==
    /\ pc = "add_git"
    /\ LET name == ResolveName(args.name, args.url)
       IN  /\ loc' = [loc EXCEPT !.name = name, !.bound = {"name"}]
           /\ \E ok \in BOOLEAN :
                IF ok /\ ~HasSubmodule(name)
                THEN /\ tracked' = tracked \cup {name}
                     /\ Did("track")
                     /\ pc' = IF args.checkout THEN "add_pull" ELSE "add_source"
                     /\ UNCHANGED outcome
                ELSE /\ Raise("VcsError")
                     /\ UNCHANGED <<tracked, log>>
    /\ UNCHANGED <<fs, saved, project, args, pre, prev, ops>>

\* git --checkout: project.sources.pull(name), synchronous, may fail
AddGitPull ==
    /\ pc = "add_pull"
    /\ \E ok \in BOOLEAN :
        IF ok
        THEN /\ Did("pull")
             /\ pc' = "add_source"
             /\ UNCHANGED outcome
        ELSE /\ Raise("VcsError")
             /\ UNCHANGED log
    /\ UNCHANGED <<fs, saved, project, tracked, args, loc, pre, prev, ops>>

\* AddLocalResolve without the osp.exists(url) test
AddLocalResolveNoExistsTest ==
    /\ pc = "add_local"
    /\ LET url == Abspath(args.url)
           name == ResolveName(args.name, url)
       IN  IF HasSource(project, name)
           THEN /\ Raise("NameConflict")
                /\ loc' = [loc EXCEPT !.url = url, !.name = name,
                                      !.bound = {"url", "name"}]
           ELSE /\ pc' = "add_provision"
                /\ loc' = [name |-> name, url |-> url,
                           bound |-> {"url", "name", "local_dir"}]
                /\ UNCHANGED outcome
    /\ UNCHANGED <<fs, saved, project, tracked, args, pre, log, prev, ops>>

\* AddLocalResolve without the "name in project.sources" test
AddLocalResolveNoConflictTest ==
    /\ pc = "add_local"
    /\ LET url == Abspath(args.url)
           name == ResolveName(args.name, url)
       IN  IF ~Exists(fs, url.segs)
           THEN /\ Raise("SourceNotFound")
                /\ loc' = [loc EXCEPT !.url = url, !.bound = {"url"}]
           ELSE /\ pc' = "add_provision"
                /\ loc' = [name |-> name, url |-> url,
                           bound |-> {"url", "name", "local_dir"}]
                /\ UNCHANGED outcome
    /\ UNCHANGED <<fs, saved, project, tracked, args, pre, log, prev, ops>>

\* local: the url is made absolute and must exist, then the name is resolved
\* and must not be a source of the project
AddLocalResolve ==
    /\ pc = "add_local"
    /\ LET url == Abspath(args.url)
           name == ResolveName(args.name, url)
       IN  IF ~Exists(fs, url.segs)
           THEN /\ Raise("SourceNotFound")
                /\ loc' = [loc EXCEPT !.url = url, !.bound = {"url"}]
           ELSE IF HasSource(project, name)
           THEN /\ Raise("NameConflict")
                /\ loc' = [loc EXCEPT !.url = url, !.name = name,
                                      !.bound = {"url", "name"}]
           ELSE /\ pc' = "add_provision"
                /\ loc' = [name |-> name, url |-> url,
                           bound |-> {"url", "name", "local_dir"}]
                /\ UNCHANGED outcome
    /\ UNCHANGED <<fs, saved, project, tracked, args, pre, log, prev, ops>>

\* AddProvision with one statement changed: copy stands for the test of
\* args.copy, existOk for makedirs/copytree accepting an existing destination,
\* rewrite for the assignments to url after the copy
ProvisionVariant(copy, existOk, rewrite) ==
    /\ pc = "add_provision"
    /\ LET rel_local_dir == LocalSourceDir(loc.name)
           local_dir == FsPath(LocalDir(loc.name))
           src == loc.url.segs
       IN  IF copy /\ ~IsDir(fs, src) /\ ~IsFile(fs, src)
           THEN /\ Raise("ExpectedFileOrDirectory")
                /\ UNCHANGED <<fs, loc, log>>
           ELSE IF Exists(fs, local_dir) /\ ~existOk
           THEN /\ Raise("DestinationExists")
                /\ UNCHANGED <<fs, loc, log>>
           ELSE IF ~copy
           THEN /\ fs' = MakeDirs(fs, local_dir)
                /\ Did("mkdir")
                /\ pc' = "add_source"
                /\ UNCHANGED <<loc, outcome>>
           ELSE \E copied \in BOOLEAN :
                IF copied /\ ~IsPrefix(src, local_dir)
                THEN /\ fs' = IF IsDir(fs, src)
                              THEN CopyTree(fs, src, local_dir)
                              ELSE CopyFile(MakeDirs(fs, local_dir), src, local_dir)
                     /\ loc' = [loc EXCEPT !.url =
                                  IF ~rewrite THEN loc.url
                                  ELSE IF IsDir(fs, src) THEN rel_local_dir
                                  ELSE Join(rel_local_dir, RelPath(<<Basename(loc.url)>>))]
                     /\ Did("copy")
                     /\ pc' = "add_source"
                     /\ UNCHANGED outcome
                ELSE /\ fs' = MakeDirs(fs, local_dir)
                     /\ Did("mkdir")
                     /\ Raise("CopyError")
                     /\ UNCHANGED loc
    /\ UNCHANGED <<saved, project, tracked, args, pre, prev, ops>>

\* AddProvision without the assignments "url = ..." behind the copy
AddProvisionKeepsUrl == ProvisionVariant(args.copy, FALSE, FALSE)

\* AddProvision copying whether or not --copy was given
AddProvisionAlwaysCopies == ProvisionVariant(TRUE, FALSE, TRUE)

\* AddProvision with an existing destination directory accepted
AddProvisionExistOk == ProvisionVariant(args.copy, TRUE, TRUE)

\* local: the destination directory is made; with --copy the data is copied
\* into it and url becomes the project-relative location of the copy
AddProvision ==
    /\ pc = "add_provision"
    /\ LET rel_local_dir == LocalSourceDir(loc.name)
           local_dir == FsPath(LocalDir(loc.name))
           src == loc.url.segs
       IN  IF args.copy /\ ~IsDir(fs, src) /\ ~IsFile(fs, src)
           THEN /\ Raise("ExpectedFileOrDirectory")
                /\ UNCHANGED <<fs, loc, log>>
           ELSE IF Exists(fs, local_dir)
           THEN \* copytree and makedirs both need the destination not to exist
                /\ Raise("DestinationExists")
                /\ UNCHANGED <<fs, loc, log>>
           ELSE IF ~args.copy
           THEN /\ fs' = MakeDirs(fs, local_dir)
                /\ Did("mkdir")
                /\ pc' = "add_source"
                /\ UNCHANGED <<loc, outcome>>
           ELSE \E copied \in BOOLEAN :
                IF copied /\ ~IsPrefix(src, local_dir)
                THEN /\ fs' = IF IsDir(fs, src)
                              THEN CopyTree(fs, src, local_dir)
                              ELSE CopyFile(MakeDirs(fs, local_dir), src, local_dir)
                     /\ loc' = [loc EXCEPT !.url =
                                  IF IsDir(fs, src) THEN rel_local_dir
                                  ELSE Join(rel_local_dir, RelPath(<<Basename(loc.url)>>))]
                     /\ Did("copy")
                     /\ pc' = "add_source"
                     /\ UNCHANGED outcome
                ELSE \* the copy breaks off after the destination was made
                     /\ fs' = MakeDirs(fs, local_dir)
                     /\ Did("mkdir")
                     /\ Raise("CopyError")
                     /\ UNCHANGED loc
    /\ UNCHANGED <<saved, project, tracked, args, pre, prev, ops>>

\* AddSource with project.save() moved up, right behind add_source
AddSourceSavesEarly ==
    /\ pc = "add_source"
    /\ IF "url" \notin loc.bound
       THEN /\ Raise("UnboundLocalError")
            /\ UNCHANGED <<project, saved, log>>
       ELSE /\ project' = AddSourceTo(project, loc.name,
                                      [url |-> loc.url, format |-> Format])
            /\ saved' = project'
            /\ Did("attach")
            /\ pc' = IF args.skip_check THEN "add_save" ELSE "add_verify"
            /\ UNCHANGED outcome
    /\ UNCHANGED <<fs, tracked, args, loc, pre, prev, ops>>

\* AddSource with the "if not args.skip_check" test dropped
AddSourceAlwaysVerifies ==
    /\ pc = "add_source"
    /\ IF "url" \notin loc.bound
       THEN /\ Raise("UnboundLocalError")
            /\ UNCHANGED <<project, log>>
       ELSE /\ project' = AddSourceTo(project, loc.name,
                                      [url |-> loc.url, format |-> Format])
            /\ Did("attach")
            /\ pc' = "add_verify"
            /\ UNCHANGED outcome
    /\ UNCHANGED <<fs, saved, tracked, args, loc, pre, prev, ops>>

\* project.add_source(name, {'url': url, 'format': args.format}); url is a
\* local of the "local" branch only, so the git branch raises here
AddSource ==
    /\ pc = "add_source"
    /\ IF "url" \notin loc.bound
       THEN /\ Raise("UnboundLocalError")
            /\ UNCHANGED <<project, log>>
       ELSE /\ project' = AddSourceTo(project, loc.name,
                                      [url |-> loc.url, format |-> Format])
            /\ Did("attach")
            /\ pc' = IF args.skip_check THEN "add_save" ELSE "add_verify"
            /\ UNCHANGED outcome
    /\ UNCHANGED <<fs, saved, tracked, args, loc, pre, prev, ops>>

\* AddVerify without the rmtree of the except branch
AddVerifyNoRollback ==
    /\ pc = "add_verify"
    /\ \E accepted \in BOOLEAN :
        IF accepted
        THEN /\ Did("verify")
             /\ pc' = "add_save"
             /\ UNCHANGED outcome
        ELSE /\ Did("verify_failed")
             /\ Raise("VerificationError")
    /\ UNCHANGED <<fs, saved, project, tracked, args, loc, pre, prev, ops>>

\* AddVerify with the error of the check swallowed after the rollback
AddVerifySwallows ==
    /\ pc = "add_verify"
    /\ \E accepted \in BOOLEAN :
        IF accepted
        THEN /\ Did("verify")
             /\ UNCHANGED fs
        ELSE \E removed \in BOOLEAN :
             /\ fs' = RmTree(fs, FsPath(LocalDir(loc.name)), removed)
             /\ log' = log \o <<"verify_failed",
                              IF removed THEN "rollback" ELSE "rollback_failed">>
    /\ pc' = "add_save"
    /\ UNCHANGED <<saved, project, tracked, args, loc, outcome, pre, prev, ops>>

\* project.make_source_project(name).make_dataset(); on failure the destination
\* directory is removed, errors of the removal ignored, and the error re-raised
AddVerify ==
    /\ pc = "add_verify"
    /\ \E accepted \in BOOLEAN :
        IF accepted
        THEN /\ Did("verify")
             /\ pc' = "add_save"
             /\ UNCHANGED <<fs, outcome>>
        ELSE \E removed \in BOOLEAN :
             /\ fs' = RmTree(fs, FsPath(LocalDir(loc.name)), removed)
             /\ log' = log \o <<"verify_failed",
                              IF removed THEN "rollback" ELSE "rollback_failed">>
             /\ Raise("VerificationError")
    /\ UNCHANGED <<saved, project, tracked, args, loc, pre, prev, ops>>

\* project.save(), then the info line naming rel_local_dir, then return 0
AddSave ==
    /\ pc = "add_save"
    /\ saved' = project
    /\ Did("save")
    /\ Return
    /\ UNCHANGED <<fs, project, tracked, args, loc, pre, prev, ops>>

-----------------------------------------------------------------------------
(* remove_command *)

RemoveBegin == \E a \in RemoveArgs : Begin(a, "rm_lookup")

\* RemoveLookup with the KeyError of get_source always passed over
RemoveLookupAlwaysForced ==
    /\ pc = "rm_lookup"
    /\ LET name == args.name.val
       IN  /\ loc' = [loc EXCEPT !.name = name, !.bound = {"name"}]
           /\ IF name = Empty
              THEN Raise("ExpectedSourceName")
              ELSE /\ pc' = "rm_untrack"
                   /\ UNCHANGED outcome
    /\ UNCHANGED <<fs, saved, project, tracked, args, pre, log, prev, ops>>

\* RemoveLookup with the KeyError of get_source never passed over
RemoveLookupNeverForced ==
    /\ pc = "rm_lookup"
    /\ LET name == args.name.val
       IN  /\ loc' = [loc EXCEPT !.name = name, !.bound = {"name"}]
           /\ IF name = Empty
              THEN Raise("ExpectedSourceName")
              ELSE IF ~HasSource(project, name)
              THEN Raise("SourceNotFound")
              ELSE /\ pc' = "rm_untrack"
                   /\ UNCHANGED outcome
    /\ UNCHANGED <<fs, saved, project, tracked, args, pre, log, prev, ops>>

\* the name must be non-empty; project.get_source(name) must find it unless
\* --force is given
RemoveLookup ==
    /\ pc = "rm_lookup"
    /\ LET name == args.name.val
       IN  /\ loc' = [loc EXCEPT !.name = name, !.bound = {"name"}]
           /\ IF name = Empty
              THEN Raise("ExpectedSourceName")
              ELSE IF ~HasSource(project, name) /\ ~args.force
              THEN Raise("SourceNotFound")
              ELSE /\ pc' = "rm_untrack"
                   /\ UNCHANGED outcome
    /\ UNCHANGED <<fs, saved, project, tracked, args, pre, log, prev, ops>>

\* RemoveUntrack with force=args.force left out of the remove_submodule call
RemoveUntrackDropsForce ==
    /\ pc = "rm_untrack"
    /\ IF HasSubmodule(loc.name)
       THEN \E ok \in BOOLEAN :
            IF UntrackRaises(ok, FALSE)
            THEN /\ Raise("VcsError")
                 /\ log' = Append(log, "untrack_failed")
                 /\ UNCHANGED tracked
            ELSE /\ tracked' = IF ok THEN tracked \ {loc.name} ELSE tracked
                 /\ log' = Append(log, IF ok THEN "untrack" ELSE "untrack_failed")
                 /\ pc' = "rm_source"
                 /\ UNCHANGED outcome
       ELSE /\ pc' = "rm_source"
            /\ UNCHANGED <<tracked, log, outcome>>
    /\ UNCHANGED <<fs, saved, project, args, loc, pre, prev, ops>>

\* if the VCS adapter tracks the name it is asked to untrack it, args.force
\* handed on to it
RemoveUntrack ==
    /\ pc = "rm_untrack"
    /\ IF HasSubmodule(loc.name)
       THEN \E ok \in BOOLEAN :
            IF UntrackRaises(ok, args.force)
            THEN /\ Raise("VcsError")
                 /\ log' = Append(log, "untrack_failed")
                 /\ UNCHANGED tracked
            ELSE /\ tracked' = IF ok THEN tracked \ {loc.name} ELSE tracked
                 /\ log' = Append(log, IF ok THEN "untrack" ELSE "untrack_failed")
                 /\ pc' = "rm_source"
                 /\ UNCHANGED outcome
       ELSE /\ pc' = "rm_source"
            /\ UNCHANGED <<tracked, log, outcome>>
    /\ UNCHANGED <<fs, saved, project, args, loc, pre, prev, ops>>

\* RemoveSource with the rmtree of the cleanup moved up, ahead of the save
RemoveSourceCleansFirst ==
    /\ pc = "rm_source"
    /\ project' = RemoveSourceFrom(project, loc.name)
    /\ loc' = [loc EXCEPT !.bound = {"name", "source_dir"}]
    /\ IF args.keep_data
       THEN /\ Did("detach")
            /\ UNCHANGED fs
       ELSE /\ fs' = RmTree(fs, FsPath(LocalDir(loc.name)), TRUE)
            /\ log' = log \o <<"detach", "rmtree">>
    /\ pc' = "rm_save"
    /\ UNCHANGED <<saved, tracked, args, outcome, pre, prev, ops>>

\* source_dir is computed and the source leaves the in-memory collection
RemoveSource ==
    /\ pc = "rm_source"
    /\ project' = RemoveSourceFrom(project, loc.name)
    /\ loc' = [loc EXCEPT !.bound = {"name", "source_dir"}]
    /\ Did("detach")
    /\ pc' = "rm_save"
    /\ UNCHANGED <<fs, saved, tracked, args, outcome, pre, prev, ops>>

\* project.save()
RemoveSave ==
    /\ pc = "rm_save"
    /\ saved' = project
    /\ Did("save")
    /\ pc' = "rm_cleanup"
    /\ UNCHANGED <<fs, project, tracked, args, loc, outcome, pre, prev, ops>>

\* RemoveCleanup with the keep_data test dropped
RemoveCleanupIgnoresKeepData ==
    /\ pc = "rm_cleanup"
    /\ \E removed \in BOOLEAN :
        /\ fs' = RmTree(fs, FsPath(LocalDir(loc.name)), removed)
        /\ Did(IF removed THEN "rmtree" ELSE "rmtree_failed")
    /\ Return
    /\ UNCHANGED <<saved, project, tracked, args, loc, pre, prev, ops>>

\* unless --keep-data, shutil.rmtree(source_dir, ignore_errors=True); return 0
RemoveCleanup ==
    /\ pc = "rm_cleanup"
    /\ IF args.keep_data
       THEN UNCHANGED <<fs, log>>
       ELSE \E removed \in BOOLEAN :
            /\ fs' = RmTree(fs, FsPath(LocalDir(loc.name)), removed)
            /\ Did(IF removed THEN "rmtree" ELSE "rmtree_failed")
    /\ Return
    /\ UNCHANGED <<saved, project, tracked, args, loc, pre, prev, ops>>

-----------------------------------------------------------------------------

Next ==
    \/ AddBegin
    \/ AddGitTrack
    \/ AddGitPull
    \/ AddLocalResolve
    \/ AddProvision
    \/ AddSource
    \/ AddVerify
    \/ AddSave
    \/ RemoveBegin
    \/ RemoveLookup
    \/ RemoveUntrack
    \/ RemoveSource
    \/ RemoveSave
    \/ RemoveCleanup

Spec == Init /\ [][Next]_vars

-----------------------------------------------------------------------------
(* Observations shared by the properties *)

InLog(e) == \E i \in 1..Len(log) : log[i] = e
Before(e1, e2) == \E i, j \in 1..Len(log) : i < j /\ log[i] = e1 /\ log[j] = e2

Finished == pc = "idle" /\ outcome \notin {"none", "running"}
IsAdd == args.cmd = "add"
IsRemove == args.cmd = "remove"
IsLocal == args.source_type = "local"

\* the name an add command resolves, from its arguments alone
AddName ==
    ResolveName(args.name, IF IsLocal THEN Abspath(args.url) ELSE args.url)

\* the destination directory sourcesDir/<name> of the command's source
DestDir(name) == FsPath(LocalDir(name))

\* Get(name) of a later command: info_command loads the project, then looks up
Get(name) == HasSource(LoadProject, name)

\* the location a Source's url names, urls of copies being project-relative
DataPresent(src) == Exists(fs, FsPath(Join(ProjectDir, src.url)))

-----------------------------------------------------------------------------
(* C1 *)

\* C1: whenever an Add has not returned successfully - while it runs and after
\* it failed at any step - the persisted Project equals the one persisted
\* before the call: Save is performed only by an Add that then returns 0.
C1_FailedAddLeavesSavedProject ==
    (IsAdd /\ outcome # "ok") => saved = pre.saved

\* an Add that attached its source to a non-empty project and then failed
C1_Witness ==
    /\ IsAdd /\ Finished /\ outcome = "VerificationError"
    /\ InLog("attach")
    /\ DOMAIN pre.saved # {}
    /\ DOMAIN project # DOMAIN saved

-----------------------------------------------------------------------------
(* C2 *)

-----------------------------------------------------------------------------
(* C3 *)

\* C3: after every Add that returned successfully the persisted Project holds,
\* under the resolved name, the Source the call created; the data its url
\* names is present; and unless --skip-check was given the format check ran
\* and accepted the source before the Project was saved.
C3_SuccessfulAddPersistsVerifiedSource ==
    (IsAdd /\ outcome = "ok") =>
        /\ loc.name = AddName
        /\ Get(loc.name)
        /\ saved[loc.name] = [url |-> loc.url, format |-> Format]
        /\ saved[loc.name] = project[loc.name]
        /\ DataPresent(saved[loc.name])
        /\ Exists(fs, DestDir(loc.name))
        /\ (~args.skip_check => Before("verify", "save") /\ ~InLog("verify_failed"))

\* a checked, copying Add that returned 0
C3_Witness ==
    /\ IsAdd /\ outcome = "ok"
    /\ ~args.skip_check /\ args.copy
    /\ InLog("verify")
    /\ Get(loc.name)

-----------------------------------------------------------------------------
(* C4 *)

\* C4 as stated: an Add whose supplied or derived name is already a source of
\* the project fails with NameConflict and changes neither the persisted
\* project nor the filesystem.
C4_Original ==
    (IsAdd /\ Finished /\ HasSource(pre.saved, AddName)) =>
        /\ outcome = "NameConflict"
        /\ saved = pre.saved
        /\ fs = pre.fs

\* C4 amended: a local Add whose name is already a source of the project
\* fails - with NameConflict when its url exists, with SourceNotFound when it
\* does not, the url being tested first - and at no point changes the
\* existing source record, the persisted project or the filesystem.  (A
\* vcs-tracked Add is not tested for the name by the registry at all.)
C4_LocalNameConflict ==
    (IsAdd /\ IsLocal /\ HasSource(pre.saved, AddName)) =>
        /\ saved = pre.saved
        /\ fs = pre.fs
        /\ Finished =>
             outcome = IF Exists(pre.fs, FsPath(args.url))
                       THEN "NameConflict" ELSE "SourceNotFound"

\* the second Add of a name whose destination directory is in place
C4_Witness ==
    /\ IsAdd /\ IsLocal /\ outcome = "NameConflict"
    /\ HasSource(saved, AddName)
    /\ Exists(fs, DestDir(AddName))
    /\ args.copy

-----------------------------------------------------------------------------
(* C5 *)

\* C5: in every reachable state every source name of the project a command
\* loads is non-empty, and an Add that did not return successfully has
\* persisted no source.
C5_NamesNonEmpty ==
    /\ \A n \in DOMAIN LoadProject : n # Empty
    /\ (IsAdd /\ outcome # "ok") => DOMAIN saved \subseteq DOMAIN pre.saved

-----------------------------------------------------------------------------
(* C6 *)

\* C6: in no reachable state has Remove deleted the destination directory
\* while the source is still in the in-memory collection or in the persisted
\* Project: the detach and the save both come before the rmtree.
C6_RegistryUpdatedBeforeCleanup ==
    (IsRemove /\ (InLog("rmtree") \/ InLog("rmtree_failed"))) =>
        /\ ~HasSource(project, loc.name)
        /\ ~HasSource(saved, loc.name)
        /\ Before("detach", "save")
        /\ Before("save", log[Len(log)])

\* Remove took a registered source's existing directory away
C6_Witness ==
    /\ IsRemove /\ InLog("rmtree")
    /\ HasSource(pre.saved, loc.name)
    /\ Exists(pre.fs, DestDir(loc.name))
    /\ ~Exists(fs, DestDir(loc.name))

-----------------------------------------------------------------------------
(* C7 *)

\* C7 as stated: Remove of a name that is not in the project fails, without
\* --force, with SourceNotFound before any effect; with --force it goes on
\* and asks the adapter to untrack a tracked entry of that name.
C7_Original ==
    (IsRemove /\ Finished /\ ~HasSource(pre.saved, args.name.val)) =>
        IF args.force
        THEN args.name.val \in pre.tracked =>
                InLog("untrack") \/ InLog("untrack_failed")
        ELSE /\ outcome = "SourceNotFound"
             /\ log = <<>>
             /\ saved = pre.saved /\ fs = pre.fs /\ tracked = pre.tracked

\* C7 amended: Remove of a non-empty name that is not in the project fails,
\* without --force, with SourceNotFound before any effect (no untrack, no
\* save, no deletion); with --force the failed lookup is passed over and the
\* adapter is asked to untrack a tracked entry of that name.  An empty name
\* is refused in either case, before the lookup, with "Expected source name".
C7_RemoveOfMissingSource ==
    (IsRemove /\ ~HasSource(pre.saved, args.name.val)) =>
        IF args.name.val = Empty \/ ~args.force
        THEN /\ log = <<>>
             /\ saved = pre.saved /\ fs = pre.fs /\ tracked = pre.tracked
             /\ Finished =>
                  outcome = IF args.name.val = Empty
                            THEN "ExpectedSourceName" ELSE "SourceNotFound"
        ELSE Finished =>
               /\ outcome # "SourceNotFound"
               /\ args.name.val \in pre.tracked =>
                     InLog("untrack") \/ InLog("untrack_failed")

\* an unforced Remove of an unregistered name that is tracked and has a
\* directory: there was something to untrack and to delete
C7_Witness ==
    /\ IsRemove /\ ~args.force /\ ~args.keep_data
    /\ outcome = "SourceNotFound"
    /\ args.name.val \in tracked
    /\ Exists(fs, DestDir(args.name.val))

\* a forced Remove of an unregistered, tracked name that untracked it
C7_ForcedUntrackReached ==
    /\ IsRemove /\ args.force /\ outcome = "ok"
    /\ ~HasSource(pre.saved, args.name.val)
    /\ args.name.val \in pre.tracked
    /\ InLog("untrack")

-----------------------------------------------------------------------------
(* C8 *)

\* C8: a Remove(name, force) that directly follows a successful
\* Remove(name, force) of the same name does not raise: it returns
\* successfully and leaves the project's source collection as it was.
C8_ForcedRemoveTwice ==
    (/\ IsRemove /\ Finished /\ args.force
     /\ prev.outcome = "ok" /\ prev.force /\ prev.name = args.name.val) =>
        /\ outcome = "ok"
        /\ saved = pre.saved
        /\ ~Get(args.name.val)

\* the second call found no source, no tracking entry and no directory,
\* the first one having removed a registered source
C8_Witness ==
    /\ IsRemove /\ Finished /\ args.force /\ outcome = "ok"
    /\ prev.outcome = "ok" /\ prev.force /\ prev.name = args.name.val
    /\ ~HasSource(pre.saved, args.name.val)
    /\ args.name.val \notin pre.tracked
    /\ ~Exists(pre.fs, DestDir(args.name.val))
    /\ DOMAIN pre.saved # {}

-----------------------------------------------------------------------------
(* C9 *)

\* C9 as stated: after a successful Remove the source is absent from the
\* registry; with --keep-data the filesystem is as before the call, without
\* it the destination directory no longer exists.
C9_Original ==
    (IsRemove /\ outcome = "ok") =>
        /\ ~Get(loc.name)
        /\ IF args.keep_data
           THEN fs = pre.fs
           ELSE ~Exists(fs, DestDir(loc.name))

\* C9 amended: after a successful Remove the source is absent from the
\* registry; with --keep-data the filesystem is as before the call; without
\* it the destination directory and what is below it are gone and nothing
\* else is - unless the recursive deletion failed, whose error is suppressed:
\* then the filesystem is as before the call and Remove still succeeds.
C9_RemoveCleansDestination ==
    (IsRemove /\ outcome = "ok") =>
        /\ ~Get(loc.name)
        /\ IF args.keep_data \/ InLog("rmtree_failed")
           THEN fs = pre.fs
           ELSE /\ ~Exists(fs, DestDir(loc.name))
                /\ \A q \in DOMAIN pre.fs :
                      Exists(fs, q) <=> ~IsPrefix(DestDir(loc.name), q)
                /\ \A q \in DOMAIN fs : Exists(pre.fs, q) /\ fs[q] = pre.fs[q]

\* a Remove with --keep-data of a registered source whose directory and
\* original data are both still there
C9_Witness ==
    /\ IsRemove /\ outcome = "ok" /\ args.keep_data
    /\ HasSource(pre.saved, loc.name)
    /\ Exists(fs, DestDir(loc.name))
    /\ DataPresent(pre.saved[loc.name])

\* a Remove without --keep-data that deleted a copy
C9_DeletionReached ==
    /\ IsRemove /\ outcome = "ok" /\ ~args.keep_data
    /\ HasSource(pre.saved, loc.name)
    /\ Exists(pre.fs, DestDir(loc.name) \o <<Img>>)
    /\ ~Exists(fs, DestDir(loc.name))

-----------------------------------------------------------------------------
(* C10 *)

C10_UnforcedReached ==
    /\ IsRemove /\ Finished /\ ~args.force
    /\ InLog("untrack_failed")
    /\ HasSource(pre.saved, loc.name)
    /\ outcome = "VcsError"

-----------------------------------------------------------------------------
(* C11 *)

IsGit == args.source_type = "git"

\* C11: when the checkout of a vcs-tracked Add with --checkout fails, the
\* error reaches the caller and the source is not registered: afterwards the
\* name is neither a source of the project nor tracked by the VCS adapter.
C11_FailedCheckoutRegistersNothing ==
    (/\ IsAdd /\ IsGit /\ args.checkout /\ Finished
     /\ InLog("track") /\ ~InLog("pull") /\ outcome = "VcsError") =>
        /\ ~Get(loc.name)
        /\ ~HasSubmodule(loc.name)

-----------------------------------------------------------------------------
(* C12 *)

\* the copy of a directory: every entry below src has its like below dst
TreeCopied(f, src, dst) ==
    /\ IsDir(f, dst)
    /\ \A q \in DOMAIN f :
          (IsPrefix(src, q) /\ ~IsPrefix(dst, q)) =>
             LET r == dst \o SubSeq(q, Len(src) + 1, Len(q))
             IN  Exists(f, r) /\ f[r] = f[q]

CopiedAddOk == IsAdd /\ IsLocal /\ args.copy /\ outcome = "ok"

\* C12 as stated: after a successful copying Add, of a directory or of a
\* single file, the registered url is the project-relative path of the
\* destination directory, sourcesDir/<name>.
C12_Original ==
    CopiedAddOk =>
        /\ ~saved[loc.name].url.abs
        /\ Norm(saved[loc.name].url.segs) = Norm(<<SourcesDir, loc.name>>)

\* C12 amended: after a successful copying Add the registered url is
\* project-relative and names the copy: the destination sourcesDir/<name>
\* when the url was a directory, the file sourcesDir/<name>/<file name>
\* inside the destination when it was a single file; the data is there.
C12_CopiedUrlNamesTheCopy ==
    CopiedAddOk =>
        LET src == FsPath(args.url)
            url == saved[loc.name].url
        IN  /\ ~url.abs
            /\ IF IsDir(pre.fs, src)
               THEN /\ Norm(url.segs) = Norm(<<SourcesDir, loc.name>>)
                    /\ TreeCopied(fs, src, DestDir(loc.name))
               ELSE /\ Norm(url.segs) = Norm(<<SourcesDir, loc.name, src[Len(src)]>>)
                    /\ IsFile(fs, DestDir(loc.name) \o <<src[Len(src)]>>)
                    /\ IsDir(fs, DestDir(loc.name))

\* Scenario A: add local /voc --copy on an empty project gives source "voc"
\* with url sources/voc and the image copied
C12_Witness ==
    /\ CopiedAddOk
    /\ pre.saved = NoSources
    /\ ~args.name.given /\ loc.name = Voc
    /\ saved[Voc].url = RelPath(<<SourcesDir, Voc>>)
    /\ IsFile(fs, <<Proj, SourcesDir, Voc, Img>>)

\* a single file copied
C12_FileCopyReached ==
    /\ CopiedAddOk
    /\ IsFile(pre.fs, FsPath(args.url))
    /\ saved[loc.name].url = RelPath(<<SourcesDir, Cvat, CvatXml>>)

-----------------------------------------------------------------------------
(* C13 *)

\* C13: a local Add whose url does not exist fails with SourceNotFound before
\* any effect: at no point of the call is a directory made, a source attached
\* or the project saved.
C13_MissingUrl ==
    (IsAdd /\ IsLocal /\ ~Exists(pre.fs, FsPath(args.url))) =>
        /\ fs = pre.fs
        /\ project = pre.saved
        /\ saved = pre.saved
        /\ log = <<>>
        /\ Finished => outcome = "SourceNotFound"

\* the url is missing, the name is free and its destination does not exist:
\* only the test of the url stood in the way
C13_Witness ==
    /\ IsAdd /\ IsLocal /\ outcome = "SourceNotFound"
    /\ args.url = AbsPath(<<Missing>>)
    /\ ~HasSource(saved, AddName)
    /\ ~Exists(fs, DestDir(AddName))
    /\ DOMAIN saved # {}

-----------------------------------------------------------------------------
(* C14 *)

\* C14: an Add that fails during provisioning - the copy breaking off, or the
\* url being neither file nor directory - leaves no destination directory
\* behind that it made itself.
C14_FailedProvisioningLeavesNoDirectory ==
    (/\ IsAdd /\ IsLocal /\ Finished
     /\ outcome \in {"CopyError", "ExpectedFileOrDirectory"}
     /\ ~Exists(pre.fs, DestDir(loc.name))) =>
        ~Exists(fs, DestDir(loc.name))

-----------------------------------------------------------------------------
(* C15 *)

\* the running (or last) command is the retry of the Add before it, which
\* failed the source check: same name, url and storage mode
IsRetry ==
    /\ IsAdd /\ IsLocal
    /\ prev.cmd = "add" /\ prev.outcome = "VerificationError"
    /\ AddName = prev.name /\ args.url = prev.url /\ args.copy = prev.copy

\* the retry got as far as its check could take it: no failure of its own
\* copy, and the check passed or was skipped
RetryWentThrough == Finished /\ outcome \notin {"CopyError", "VerificationError"}

\* C15 as stated: after an Add that failed verification, the retried Add whose
\* verification passes or is skipped succeeds, blocked neither by NameConflict
\* nor by a leftover destination directory.
C15_Original ==
    (IsRetry /\ RetryWentThrough) => outcome = "ok"

\* C15 amended: the same, provided the removal of the destination directory
\* in the failed Add's rollback went through; NameConflict never blocks the
\* retry, a directory the rollback could not remove does.
C15_RetryAfterFailedVerification ==
    /\ IsRetry => (pc = "idle" => outcome # "NameConflict")
    /\ (IsRetry /\ RetryWentThrough) =>
          IF prev.rolled_back
          THEN /\ outcome = "ok"
               /\ Get(prev.name)
          ELSE outcome = "DestinationExists"

\* a verified retry of a copying Add that returned 0
C15_Witness ==
    /\ IsRetry /\ outcome = "ok"
    /\ prev.rolled_back /\ args.copy /\ ~args.skip_check
    /\ InLog("verify")

\* a retry that found the directory the rollback had left
C15_LeftoverReached ==
    /\ IsRetry /\ ~prev.rolled_back /\ outcome = "DestinationExists"

-----------------------------------------------------------------------------
(* C16 *)

\* C16: a vcs-tracked Add whose Track (and Checkout, when asked for) went
\* through, with the source check skipped, runs to completion: the Source
\* with the given url and format is attached, the project saved, 0 returned.
C16_GitAddCompletes ==
    (/\ IsAdd /\ IsGit /\ Finished /\ args.skip_check
     /\ InLog("track") /\ (args.checkout => InLog("pull"))) =>
        /\ outcome = "ok"
        /\ Get(loc.name)
        /\ saved[loc.name] = [url |-> args.url, format |-> Format]

-----------------------------------------------------------------------------
(* C17 *)

LinkedAddOk == IsAdd /\ IsLocal /\ ~args.copy /\ outcome = "ok"

\* C17: after a successful linking Add the registered url is the absolute
\* path of the original location; everything that was on the filesystem is
\* still there unchanged, nothing was copied, and the destination
\* sourcesDir/<name> exists as an empty directory - the only additions are
\* that directory and its missing ancestors.
C17_LinkedAddLeavesDataInPlace ==
    LinkedAddOk =>
        LET url == saved[loc.name].url
            dst == DestDir(loc.name)
        IN  /\ url.abs
            /\ url.segs = FsPath(args.url)
            /\ Exists(pre.fs, url.segs) /\ Exists(fs, url.segs)
            /\ \A q \in DOMAIN pre.fs : Exists(fs, q) /\ fs[q] = pre.fs[q]
            /\ IsDir(fs, dst) /\ ~Exists(pre.fs, dst)
            /\ \A q \in DOMAIN fs : IsPrefix(dst, q) => q = dst
            /\ \A q \in DOMAIN fs : Exists(pre.fs, q) \/ IsPrefix(q, dst)

\* Scenario B, first half: add local /cvat.xml -n <name> without --copy
C17_Witness ==
    /\ LinkedAddOk
    /\ args.url = AbsPath(<<CvatXml>>) /\ args.name.given
    /\ saved[loc.name].url = AbsPath(<<CvatXml>>)
    /\ IsFile(fs, <<CvatXml>>)
    /\ IsDir(fs, DestDir(loc.name))

-----------------------------------------------------------------------------
(* C18 *)

Times(e) == Cardinality({i \in 1..Len(log) : log[i] = e})
Verified == InLog("verify") \/ InLog("verify_failed")

\* C18: in an Add the format check runs if and only if --skip-check is unset
\* (once the Source is attached, which is where the check stands), it runs
\* after the attach and before the save, and the save happens at most once,
\* as the last effect of a call that then returns successfully.
C18_VerifyBetweenAttachAndSave ==
    IsAdd =>
        /\ Verified => /\ ~args.skip_check
                       /\ Times("verify") + Times("verify_failed") = 1
                       /\ \/ Before("attach", "verify")
                          \/ Before("attach", "verify_failed")
        /\ (InLog("attach") /\ Finished /\ ~args.skip_check) => Verified
        /\ (InLog("attach") /\ pc = "add_save" /\ ~args.skip_check) => InLog("verify")
        /\ Times("save") <= 1
        /\ InLog("save") =>
              /\ log[Len(log)] = "save"
              /\ outcome = "ok"
              /\ Before("attach", "save")
              /\ ~args.skip_check => Before("verify", "save")
        /\ saved # pre.saved => InLog("save")
        /\ outcome = "ok" => InLog("save")

\* an Add with --skip-check that saved without the check having run
C18_Witness ==
    /\ IsAdd /\ outcome = "ok" /\ args.skip_check
    /\ log[Len(log)] = "save"
    /\ ~Verified
    /\ InLog("attach")

\* an Add whose check ran between attach and save
C18_CheckedReached ==
    /\ IsAdd /\ outcome = "ok" /\ ~args.skip_check
    /\ Before("attach", "verify") /\ Before("verify", "save")

-----------------------------------------------------------------------------
(* C19 *)

\* C19: the rollback of an Add removes only a destination directory that the
\* same call made; and a local Add that finds sourcesDir/<name> in place fails
\* - in its provisioning, when it gets that far, copying or linking - without
\* ever touching the filesystem, the directory and its contents included.
C19_RollbackTouchesOwnDirectoryOnly ==
    /\ (IsAdd /\ (InLog("rollback") \/ InLog("rollback_failed"))) =>
          /\ ~Exists(pre.fs, DestDir(loc.name))
          /\ \A q \in DOMAIN pre.fs : Exists(fs, q) /\ fs[q] = pre.fs[q]
    /\ (IsAdd /\ IsLocal /\ Exists(pre.fs, DestDir(AddName))) =>
          /\ fs = pre.fs
          /\ saved = pre.saved
          /\ outcome # "ok"
          /\ (/\ Finished /\ Exists(pre.fs, FsPath(args.url))
              /\ ~HasSource(pre.saved, AddName)) =>
                 outcome \in {"DestinationExists", "ExpectedFileOrDirectory"}

\* the directory a Remove with --keep-data left behind, contents and all,
\* met by a copying Add of the same name
C19_Witness ==
    /\ IsAdd /\ IsLocal /\ args.copy /\ outcome = "DestinationExists"
    /\ prev.cmd = "remove" /\ prev.outcome = "ok" /\ prev.name = AddName
    /\ ~HasSource(pre.saved, AddName)
    /\ IsFile(fs, DestDir(AddName) \o <<Img>>)

\* the same met by a linking Add
C19_LinkedReached ==
    /\ IsAdd /\ IsLocal /\ ~args.copy /\ outcome = "DestinationExists"
    /\ ~HasSource(pre.saved, AddName)
    /\ IsFile(fs, DestDir(AddName) \o <<Img>>)

-----------------------------------------------------------------------------
(* C20 *)

\* C20: after any sequence of Add and Remove calls the data every registered
\* source's url names is present: Remove deletes the destination directory
\* of the named source only, never what another registered source points at.
C20_RegisteredDataPresent ==
    \A n \in DOMAIN saved : DataPresent(saved[n])

=============================================================================
